---- MODULE Spec2Model ----
\* A model of docker-ps.10s.go: classification of containers by label
\* (container.fill), the listing order (containerLs), command dispatch
\* (containerCmd), pruneCmd, the concurrent queries of defaultCmd, and main.
\*
\* Strings are sequences of tokens.  A token is one character ("a", ",",
\* "=") or one of the label keys the code compares against, taken as a unit.
EXTENDS Integers, Sequences, FiniteSets, TLC

VARIABLES
    args,        \* flag.Args(): the positional arguments
    projectF,    \* -project flag
    pruneF,      \* -prune flag
    world,       \* what the docker daemon holds: the raw container records
    pc,          \* position of the main goroutine
    argi,        \* index of the argument being dispatched by main's loop
    containers,  \* result slot: containers (containerLs result)
    networks,    \* result slot: networks
    volumes,     \* result slot: volumes
    ids,         \* containerCmd's ids slice
    gstate,      \* errgroup goroutines: slot name -> "idle" | "running" | "ok" | "err"
    writes,      \* number of assignments made to each result slot
    calls,       \* log of docker invocations, in order
    out,         \* lines printed on stdout
    exit,        \* process exit: "none" | "ok" | the reason of log.Fatal
    logged,      \* number of errors pruneCmd has passed to log.Print
    rec,         \* a container record under container.fill
    recPc,       \* "raw" | "filled"
    listing,     \* a slice of container records under containerLs' sort
    lsPc         \* "decoded" | "sorted" | "resorted"

mainVars == <<args, projectF, pruneF, world, pc, argi, containers, networks,
              volumes, ids, gstate, writes, calls, out, exit, logged>>
fillVars == <<rec, recPc>>
sortVars == <<listing, lsPc>>
pureVars == <<rec, recPc, listing, lsPc>>
vars == <<args, projectF, pruneF, world, pc, argi, containers, networks,
          volumes, ids, gstate, writes, calls, out, exit, logged, rec,
          recPc,
          listing, lsPc>>

----
\* Bounds of the model.
MaxArgs == 2
MaxContainers == 2
MaxSegments == 3
MaxSort == 3
MaxRender == 3
MaxVolumes == 2
MaxRunning == 2

----
\* containerType
Single == 0
Group == 1
Compose == 2
Kubernetes == 3
Minikube == 4
Talos == 5

\* the label keys of container.fill, each a string of one token
GroupKey == <<"com.github.AlekSi.docker-ps.group">>
ComposeKey == <<"com.docker.compose.project">>
KubernetesKey == <<"io.kubernetes.pod.namespace">>
MinikubeKey == <<"name.minikube.sigs.k8s.io">>
TalosKey == <<"talos.cluster.name">>

\* Byte order of the tokens (Go compares strings bytewise).
BuildkitPrefix == <<"moby/buildkit:">>

Chars == <<" ", ",", "0", "=", "A", "U", "a", "b", "bridge", ComposeKey[1],
           GroupKey[1], "f", "g", "i", KubernetesKey[1], "local",
           BuildkitPrefix[1], MinikubeKey[1], "p", TalosKey[1], "x">>

CharOrd(ch) == CHOOSE i \in 1..Len(Chars) : Chars[i] = ch

\* s < t on strings
StrLess(s, t) ==
    \E i \in 1..(Len(t)) :
        /\ \A j \in 1..(i - 1) : j <= Len(s) /\ s[j] = t[j]
        /\ \/ i = Len(s) + 1
           \/ i <= Len(s) /\ CharOrd(s[i]) < CharOrd(t[i])

\* strings.HasPrefix
HasPrefix(s, prefix) ==
    /\ Len(s) >= Len(prefix)
    /\ SubSeq(s, 1, Len(prefix)) = prefix

\* strings.Split(s, sep) for a one-token separator
RECURSIVE Split(_, _)
Split(s, sep) ==
    IF \E i \in 1..Len(s) : s[i] = sep
    THEN LET i == CHOOSE k \in 1..Len(s) :
                      s[k] = sep /\ \A j \in 1..(k - 1) : s[j] # sep
         IN  <<SubSeq(s, 1, i - 1)>> \o Split(SubSeq(s, i + 1, Len(s)), sep)
    ELSE <<s>>

\* strings.Join
RECURSIVE Join(_, _)
Join(parts, sep) ==
    IF Len(parts) = 0 THEN <<>>
    ELSE IF Len(parts) = 1 THEN parts[1]
    ELSE parts[1] \o <<sep>> \o Join(Tail(parts), sep)

----
\* container.fill

\* the zero value of the project field
ZeroProject == [typ |-> Single, name |-> <<>>]

\* a decoded container record (project is not a JSON field)
Container(id, names, image, labels, state, status) ==
    [ID |-> id, Names |-> names, Image |-> image, Labels |-> labels,
     State |-> state, Status |-> status, project |-> ZeroProject]

\* the switch on the label key
FillCase(c, k, v) ==
    CASE k = GroupKey ->
            [c EXCEPT !.project = [typ |-> Group, name |-> v]]
      [] k = ComposeKey ->
            [c EXCEPT !.project = [typ |-> Compose, name |-> v]]
      [] k = KubernetesKey ->
            [c EXCEPT !.project = [typ |-> Kubernetes, name |-> v],
                      !.Image = <<>>]
      [] k = MinikubeKey ->
            [c EXCEPT !.project = [typ |-> Minikube, name |-> v],
                      !.Image = <<>>]
      [] k = TalosKey ->
            [c EXCEPT !.project = [typ |-> Talos, name |-> v]]
      [] OTHER -> c

\* the loop over the label parts: every part is handled; nothing stops it
RECURSIVE FillLoopNoReturn(_, _, _)
FillLoopNoReturn(c, parts, i) ==
    IF i > Len(parts) THEN c
    ELSE LET pair == Split(parts[i], "=")
         IN  IF Len(pair) # 2
             THEN FillLoopNoReturn(c, parts, i + 1)
             ELSE FillLoopNoReturn(FillCase(c, pair[1], pair[2]), parts, i + 1)

\* the loop over the label parts, returning once the name is set
RECURSIVE FillLoop(_, _, _)
FillLoop(c, parts, i) ==
    IF i > Len(parts) THEN c
    ELSE LET pair == Split(parts[i], "=")
         IN  IF Len(pair) # 2
             THEN FillLoop(c, parts, i + 1)
             ELSE LET c2 == FillCase(c, pair[1], pair[2])
                  IN  IF c2.project.name # <<>>
                      THEN c2
                      ELSE FillLoop(c2, parts, i + 1)

Fill(c) ==
    FillLoop([c EXCEPT !.project.typ = Single], Split(c.Labels, ","), 1)

\* container.running
UpPrefix == <<"U", "p", " ">>

\* the State field alone, without the Status prefix
runningStateOnly(c) == c.State = "running"

running(c) == c.State = "running" \/ HasPrefix(c.Status, UpPrefix)

----
\* containerLs: the comparison function handed to sort.Slice

\* the comparison by container name alone
LessByNames(a, b) == StrLess(a.Names, b.Names)

\* the comparison without the project name
LessNoProjectName(a, b) ==
    IF a.project.typ # b.project.typ
    THEN a.project.typ < b.project.typ
    ELSE StrLess(a.Names, b.Names)

Less(a, b) ==
    IF a.project.typ # b.project.typ
    THEN a.project.typ < b.project.typ
    ELSE IF a.project.name # b.project.name
         THEN StrLess(a.project.name, b.project.name)
         ELSE StrLess(a.Names, b.Names)

\* sort.Slice on a short slice is an insertion sort: each element moves left
\* while it is less than its left neighbour.
RECURSIVE SortInsert(_, _)
SortInsert(s, x) ==
    IF Len(s) = 0 THEN <<x>>
    ELSE IF Less(x, s[Len(s)])
         THEN Append(SortInsert(SubSeq(s, 1, Len(s) - 1), x), s[Len(s)])
         ELSE Append(s, x)

RECURSIVE SortSlice(_)
SortSlice(s) ==
    IF Len(s) <= 1 THEN s
    ELSE SortInsert(SortSlice(SubSeq(s, 1, Len(s) - 1)), s[Len(s)])

\* containerLs on the decoded records: fill each, then sort
ContainerLs(decoded) ==
    SortSlice([i \in 1..Len(decoded) |-> Fill(decoded[i])])

\* networkLs, volumeLs: sorted by driver, then name
DriverNameLess(a, b) ==
    IF a.Driver # b.Driver
    THEN StrLess(a.Driver, b.Driver)
    ELSE StrLess(a.Name, b.Name)

RECURSIVE DriverNameInsert(_, _)
DriverNameInsert(s, x) ==
    IF Len(s) = 0 THEN <<x>>
    ELSE IF DriverNameLess(x, s[Len(s)])
         THEN Append(DriverNameInsert(SubSeq(s, 1, Len(s) - 1), x), s[Len(s)])
         ELSE Append(s, x)

RECURSIVE DriverNameSort(_)
DriverNameSort(s) ==
    IF Len(s) <= 1 THEN s
    ELSE DriverNameInsert(DriverNameSort(SubSeq(s, 1, Len(s) - 1)), s[Len(s)])

----
\* containerCmd: the selection loop

Commands == {"start", "stop", "restart", "kill", "rm"}

\* the project-name test at the top of the loop body
Skipped(projectName, c) ==
    projectName # <<>> /\ projectName # c.project.name

\* the switch on the command, with every case adding the container
AddAlways(command, c) ==
    CASE command \in {"start", "rm"} -> TRUE
      [] command = "restart" -> TRUE
      [] command \in {"stop", "kill"} -> TRUE

\* the switch on the command, for a recognized command
Add(command, c) ==
    CASE command \in {"start", "rm"} -> ~running(c)
      [] command = "restart" -> TRUE
      [] command \in {"stop", "kill"} -> running(c)

\* the loop: the ids collected, or fatal at the first container that reaches
\* the switch's default
RECURSIVE SelectLoop(_, _, _, _, _)
SelectLoop(command, projectName, cs, i, acc) ==
    IF i > Len(cs) THEN [fatal |-> FALSE, ids |-> acc]
    ELSE IF Skipped(projectName, cs[i])
         THEN SelectLoop(command, projectName, cs, i + 1, acc)
         ELSE IF command \notin Commands
              THEN [fatal |-> TRUE, ids |-> acc]
              ELSE SelectLoop(command, projectName, cs, i + 1,
                              IF Add(command, cs[i])
                              THEN Append(acc, cs[i].ID) ELSE acc)

\* the docker command line: only one container per call
CmdArgsFirstOnly(command, idList) ==
    [cmd |-> IF command = "rm" THEN <<"rm", "--force", "--volumes">>
             ELSE <<command>>,
     ids |-> <<idList[1]>>]

\* the docker command line of the mutating call
CmdArgs(command, idList) ==
    [cmd |-> IF command = "rm" THEN <<"rm", "--force", "--volumes">>
             ELSE <<command>>,
     ids |-> idList]

ContainerLsCall == [cmd |-> <<"container", "ls">>, ids |-> <<>>]
NetworkLsCall == [cmd |-> <<"network", "ls">>, ids |-> <<>>]
VolumeLsCall == [cmd |-> <<"volume", "ls">>, ids |-> <<>>]
BuildxPruneCall == [cmd |-> <<"buildx", "prune", "--force">>, ids |-> <<>>]
SystemPruneCall ==
    [cmd |-> <<"system", "prune", "--force", "--volumes">>, ids |-> <<>>]

----
\* volume.anonymous

AnonymousNameLen == 64

\* the characters hex.DecodeString accepts
HexDigits == {"0", "a", "f", "A"}

anonymous(v) ==
    IF v.Driver # <<"local">> THEN FALSE
    ELSE IF Len(v.Name) # AnonymousNameLen THEN FALSE
    ELSE \A i \in 1..Len(v.Name) : v.Name[i] \in HexDigits

----
\* defaultCmd: what is printed once the three queries have succeeded

Sep == [kind |-> "---"]

Count(s, P(_)) == Cardinality({i \in 1..Len(s) : P(s[i])})

SummaryLines(cs) ==
    IF Len(cs) = 0
    THEN <<[kind |-> "summary", running |-> 0, total |-> 0], Sep>>
    ELSE <<[kind |-> "summary", running |-> Count(cs, running),
            total |-> Len(cs)], Sep>>

BulkLine(name, params) ==
    [kind |-> "bulk", project |-> name, params |-> params]

\* the lines of the switch on the project type; fatal in the default case
HeaderLines(c) ==
    LET h == [kind |-> "header", typ |-> c.project.typ,
              name |-> c.project.name]
        n == c.project.name
    IN  CASE c.project.typ = Group -> <<Sep, h>>
          [] c.project.typ = Compose ->
                <<Sep, h, BulkLine(n, <<"start">>), BulkLine(n, <<"restart">>),
                  BulkLine(n, <<"stop">>), BulkLine(n, <<"kill", "rm">>)>>
          [] c.project.typ = Kubernetes -> <<Sep, h>>
          [] c.project.typ = Minikube -> <<Sep, h>>
          [] c.project.typ = Talos ->
                <<Sep, h, BulkLine(n, <<"start">>), BulkLine(n, <<"stop">>),
                  BulkLine(n, <<"restart">>), BulkLine(n, <<"kill", "rm">>)>>
          [] OTHER -> <<Sep>>

ContainerLine(c) ==
    [kind |-> "container",
     icon |-> IF HasPrefix(c.Image, BuildkitPrefix) THEN "gear" ELSE "whale",
     name |-> c.Names, image |-> c.Image,
     param1 |-> IF running(c) THEN "stop" ELSE "start", param2 |-> c.ID]

\* the loop over the containers, with lastProjectName
RECURSIVE ContainerLines(_, _, _, _)
ContainerLines(cs, i, lastProjectName, acc) ==
    IF i > Len(cs) THEN [fatal |-> FALSE, lines |-> acc]
    ELSE IF lastProjectName # cs[i].project.name
         THEN IF cs[i].project.typ = Single
              THEN [fatal |-> TRUE, lines |-> acc \o HeaderLines(cs[i])]
              ELSE ContainerLines(cs, i + 1, cs[i].project.name,
                       acc \o HeaderLines(cs[i]) \o <<ContainerLine(cs[i])>>)
         ELSE ContainerLines(cs, i + 1, lastProjectName,
                             Append(acc, ContainerLine(cs[i])))

NetworkLines(ns) ==
    IF Len(ns) = 0 THEN <<>>
    ELSE <<Sep, [kind |-> "networks", count |-> Len(ns)]>>
         \o [i \in 1..Len(ns) |->
                [kind |-> "network", name |-> ns[i].Name,
                 driver |-> ns[i].Driver]]

RECURSIVE NamedVolumeLines(_, _)
NamedVolumeLines(vs, i) ==
    IF i > Len(vs) THEN <<>>
    ELSE IF anonymous(vs[i]) THEN NamedVolumeLines(vs, i + 1)
    ELSE <<[kind |-> "volume", name |-> vs[i].Name, driver |-> vs[i].Driver]>>
         \o NamedVolumeLines(vs, i + 1)

VolumeLines(vs) ==
    IF Len(vs) = 0 THEN <<>>
    ELSE <<Sep, [kind |-> "volumes", count |-> Len(vs)]>>
         \o NamedVolumeLines(vs, 1)
         \o (IF Count(vs, anonymous) # 0
             THEN <<[kind |-> "anonymous", count |-> Count(vs, anonymous)]>>
             ELSE <<>>)

FooterLines ==
    <<Sep, [kind |-> "global", params |-> <<"stop">>],
      [kind |-> "global", params |-> <<"rm">>],
      [kind |-> "global", params |-> <<"-prune">>],
      [kind |-> "global", params |-> <<"-prune", "kill">>]>>

\* everything defaultCmd prints after g.Wait
Render(cs, ns, vs) ==
    LET body == ContainerLines(cs, 1, <<>>, <<>>)
    IN  IF body.fatal
        THEN [fatal |-> TRUE, lines |-> SummaryLines(cs) \o body.lines]
        ELSE [fatal |-> FALSE,
              lines |-> SummaryLines(cs) \o body.lines \o NetworkLines(ns)
                        \o VolumeLines(vs) \o FooterLines]

----
\* The inputs of one invocation.

CommandNames == Commands \cup {"bogus"}

ArgSeqs == UNION {[1..n -> CommandNames] : n \in 0..MaxArgs}

Filters == {<<>>, <<"a">>}

StatusUp == <<"U", "p", " ", "x">>
StatusExited == <<"x">>

RunSamples == {[State |-> "running", Status |-> StatusUp],
               [State |-> "exited", Status |-> StatusExited]}

WorldLabels == {<<>>, ComposeKey \o <<"=", "a">>}

\* container i is named "a" repeated (MaxContainers + 1 - i) times, so that
\* the daemon's order is not the sorted order
ContainerName(i) == [k \in 1..(MaxContainers + 1 - i) |-> "a"]

Choices == [present : BOOLEAN, labels : WorldLabels, run : RunSamples]

RECURSIVE WorldFrom(_, _)
WorldFrom(f, i) ==
    IF i > MaxContainers THEN <<>>
    ELSE (IF f[i].present
          THEN <<Container(i, ContainerName(i), <<"i">>, f[i].labels,
                           f[i].run.State, f[i].run.Status)>>
          ELSE <<>>) \o WorldFrom(f, i + 1)

Worlds == {WorldFrom(f, 1) : f \in [1..MaxContainers -> Choices]}

Net(driver, name) == [Driver |-> <<driver>>, Name |-> name]

NetworkSamples == {<<>>, <<Net("bridge", <<"b">>), Net("bridge", <<"a">>)>>}

AnonymousName == [k \in 1..AnonymousNameLen |-> "a"]

VolumeSamples == {<<>>, <<Net("local", <<"b">>), Net("local", AnonymousName)>>}

Slots == {"containers", "networks", "volumes"}

InitMain ==
    /\ args \in ArgSeqs
    /\ projectF \in Filters
    /\ pruneF \in BOOLEAN
    /\ world \in Worlds
    /\ pc = "main"
    /\ argi = 1
    /\ containers = <<>>
    /\ networks = <<>>
    /\ volumes = <<>>
    /\ ids = <<>>
    /\ gstate = [s \in Slots |-> "idle"]
    /\ writes = [s \in Slots |-> 0]
    /\ calls = <<>>
    /\ out = <<>>
    /\ exit = "none"
    /\ logged = 0

FillIdle == rec = Container(0, <<>>, <<>>, <<>>, "", <<>>) /\ recPc = "idle"
SortIdle == listing = <<>> /\ lsPc = "idle"

Init == InitMain /\ FillIdle /\ SortIdle

----
\* log.Print in place of log.Fatal: main carries on to its last step
FatalCarryOn(reason) ==
    /\ exit' = reason
    /\ pc' = "prune"

\* log.Fatal: the process exits at once; reason names the failure
Fatal(reason) ==
    /\ exit' = reason
    /\ pc' = "done"

\* main returns: status 0, unless log.Fatal has already set the status
ExitOk ==
    /\ pc' = "done"
    /\ exit' = IF exit = "none" THEN "ok" ELSE exit

\* main: no positional argument, defaultCmd starts the three goroutines
DefaultCmdGo ==
    /\ pc = "main"
    /\ Len(args) = 0
    /\ gstate' = [s \in Slots |-> "spawned"]
    /\ pc' = "wait"
    /\ UNCHANGED <<args, projectF, pruneF, world, argi, containers, networks,
                   volumes, ids, writes, calls, out, exit, logged>>
    /\ UNCHANGED pureVars

\* a goroutine starts its docker query
QueryStart(s) ==
    /\ gstate[s] = "spawned"
    /\ gstate' = [gstate EXCEPT ![s] = "running"]
    /\ calls' = Append(calls, CASE s = "containers" -> ContainerLsCall
                                [] s = "networks" -> NetworkLsCall
                                [] s = "volumes" -> VolumeLsCall)
    /\ UNCHANGED <<args, projectF, pruneF, world, pc, argi, containers,
                   networks, volumes, ids, writes, out, exit, logged>>
    /\ UNCHANGED pureVars

\* the query returns; the goroutine assigns its slot and returns err
QueryContainersDone ==
    /\ gstate["containers"] = "running"
    /\ \E ok \in BOOLEAN :
          /\ containers' = IF ok THEN ContainerLs(world) ELSE <<>>
          /\ gstate' = [gstate EXCEPT !["containers"] =
                                          IF ok THEN "ok" ELSE "err"]
    /\ writes' = [writes EXCEPT !["containers"] = @ + 1]
    /\ UNCHANGED <<args, projectF, pruneF, world, pc, argi, networks, volumes,
                   ids, calls, out, exit, logged>>
    /\ UNCHANGED pureVars

QueryNetworksDone ==
    /\ gstate["networks"] = "running"
    /\ \/ \E ns \in NetworkSamples :
             /\ networks' = DriverNameSort(ns)
             /\ gstate' = [gstate EXCEPT !["networks"] = "ok"]
       \/ /\ networks' = <<>>
          /\ gstate' = [gstate EXCEPT !["networks"] = "err"]
    /\ writes' = [writes EXCEPT !["networks"] = @ + 1]
    /\ UNCHANGED <<args, projectF, pruneF, world, pc, argi, containers,
                   volumes, ids, calls, out, exit, logged>>
    /\ UNCHANGED pureVars

QueryVolumesDone ==
    /\ gstate["volumes"] = "running"
    /\ \/ \E vs \in VolumeSamples :
             /\ volumes' = DriverNameSort(vs)
             /\ gstate' = [gstate EXCEPT !["volumes"] = "ok"]
       \/ /\ volumes' = <<>>
          /\ gstate' = [gstate EXCEPT !["volumes"] = "err"]
    /\ writes' = [writes EXCEPT !["volumes"] = @ + 1]
    /\ UNCHANGED <<args, projectF, pruneF, world, pc, argi, containers,
                   networks, ids, calls, out, exit, logged>>
    /\ UNCHANGED pureVars

\* g.Wait returns when the three goroutines have returned, without waiting
\* for the slowest one
WaitReadyAny == \E s \in Slots : gstate[s] \in {"ok", "err"}

\* g.Wait returns when the three goroutines have returned
WaitReady == \A s \in Slots : gstate[s] \in {"ok", "err"}

\* g.Wait, then log.Fatal on an error or the rendering
DefaultCmdWait ==
    /\ pc = "wait"
    /\ WaitReady
    /\ IF \E s \in Slots : gstate[s] = "err"
       THEN Fatal("QueryFailure") /\ UNCHANGED out
       ELSE LET r == Render(containers, networks, volumes)
            IN  /\ out' = r.lines
                /\ IF r.fatal THEN Fatal("UnexpectedProjectType")
                   ELSE pc' = "prune" /\ UNCHANGED exit
    /\ UNCHANGED <<args, projectF, pruneF, world, argi, containers, networks,
                   volumes, ids, gstate, writes, calls, logged>>
    /\ UNCHANGED pureVars

----
\* main's loop over flag.Args(): containerCmd has returned
\* (as with a single command: nothing follows the first argument)
ReturnFirstOnly ==
    /\ pc' = "prune"
    /\ argi' = argi
    /\ UNCHANGED exit

Return ==
    /\ IF argi < Len(args)
       THEN pc' = "main" /\ argi' = argi + 1
       ELSE pc' = "prune" /\ argi' = argi
    /\ UNCHANGED exit

\* containerCmd up to the mutating call: containerLs, then the selection loop
ContainerCmdLs ==
    /\ pc = "main"
    /\ Len(args) > 0
    /\ calls' = Append(calls, ContainerLsCall)
    /\ \/ /\ Fatal("QueryFailure")
          /\ UNCHANGED <<containers, ids, argi>>
       \/ LET cs == ContainerLs(world)
              sel == SelectLoop(args[argi], projectF, cs, 1, <<>>)
          IN  /\ containers' = cs
              /\ ids' = sel.ids
              /\ IF sel.fatal
                 THEN Fatal("UnsupportedCommand") /\ UNCHANGED argi
                 ELSE IF Len(sel.ids) = 0
                      THEN Return
                      ELSE pc' = "run" /\ UNCHANGED <<argi, exit>>
    /\ UNCHANGED <<args, projectF, pruneF, world, networks, volumes, gstate,
                   writes, out, logged>>
    /\ UNCHANGED pureVars

\* containerCmd: the mutating call, cmd.Run
ContainerCmdRun ==
    /\ pc = "run"
    /\ calls' = Append(calls, CmdArgs(args[argi], ids))
    /\ \/ Fatal("DispatchFailure") /\ UNCHANGED argi
       \/ Return
    /\ UNCHANGED <<args, projectF, pruneF, world, containers, networks,
                   volumes, ids, gstate, writes, out, logged>>
    /\ UNCHANGED pureVars

\* pruneCmd: cmd.Run failed and the failure ends the process
PruneFailedFatal(next) ==
    /\ logged' = logged + 1
    /\ Fatal("PruneFailure")

\* pruneCmd: cmd.Run failed; log.Print(err) and on to the next command line
PruneFailed(next) ==
    /\ logged' = logged + 1
    /\ pc' = next
    /\ UNCHANGED exit

\* main: the test of the -prune flag
PruneWanted == pruneF

\* pruneCmd, first command line: buildx prune
PruneBuildx ==
    /\ pc = "prune"
    /\ PruneWanted
    /\ calls' = Append(calls, BuildxPruneCall)
    /\ \/ pc' = "prune2" /\ UNCHANGED <<exit, logged>>
       \/ PruneFailed("prune2")
    /\ UNCHANGED <<args, projectF, pruneF, world, argi, containers, networks,
                   volumes, ids, gstate, writes, out>>
    /\ UNCHANGED pureVars

\* pruneCmd, second command line: system prune
PruneSystem ==
    /\ pc = "prune2"
    /\ calls' = Append(calls, SystemPruneCall)
    /\ \/ pc' = "return" /\ UNCHANGED <<exit, logged>>
       \/ PruneFailed("return")
    /\ UNCHANGED <<args, projectF, pruneF, world, argi, containers, networks,
                   volumes, ids, gstate, writes, out>>
    /\ UNCHANGED pureVars

\* main returns, after pruneCmd or without it
MainReturn ==
    /\ \/ pc = "prune" /\ ~PruneWanted
       \/ pc = "return"
    /\ ExitOk
    /\ UNCHANGED <<args, projectF, pruneF, world, argi, containers, networks,
                   volumes, ids, gstate, writes, calls, out, logged>>
    /\ UNCHANGED pureVars

Next ==
    \/ DefaultCmdGo
    \/ \E s \in Slots : QueryStart(s)
    \/ QueryContainersDone
    \/ QueryNetworksDone
    \/ QueryVolumesDone
    \/ DefaultCmdWait
    \/ ContainerCmdLs
    \/ ContainerCmdRun
    \/ PruneBuildx
    \/ PruneSystem
    \/ MainReturn

Spec == Init /\ [][Next]_vars

----
\* container.fill on its own: one record, every label string made of up to
\* MaxSegments of the segments below, joined by commas.

Keys == {GroupKey, ComposeKey, KubernetesKey, MinikubeKey, TalosKey}

SegmentSamples ==
    {k \o <<"=">> \o v : k \in Keys \cup {<<"x">>}, v \in {<<>>, <<"a">>}}
    \cup {ComposeKey \o <<"=", "b">>, TalosKey \o <<"=", "b">>}
    \cup {<<>>, <<"x">>, ComposeKey, <<"=", "a">>,
          ComposeKey \o <<"=", "a", "=", "b">>}

LabelSamples ==
    {Join(segs, ",") :
        segs \in UNION {[1..n -> SegmentSamples] : n \in 0..MaxSegments}}

MainIdle ==
    /\ args = <<>>
    /\ projectF = <<>>
    /\ pruneF = FALSE
    /\ pc = "idle"
    /\ argi = 1
    /\ containers = <<>>
    /\ networks = <<>>
    /\ volumes = <<>>
    /\ ids = <<>>
    /\ gstate = [s \in Slots |-> "idle"]
    /\ writes = [s \in Slots |-> 0]
    /\ calls = <<>>
    /\ out = <<>>
    /\ exit = "none"
    /\ logged = 0

InitFill ==
    /\ MainIdle
    /\ world = <<>>
    /\ SortIdle
    /\ \E labels \in LabelSamples :
          rec = Container(1, <<"a">>, <<"i">>, labels, "running", StatusUp)
    /\ recPc = "raw"

\* c.fill()
FillRecord ==
    /\ recPc = "raw"
    /\ rec' = Fill(rec)
    /\ recPc' = "filled"
    /\ UNCHANGED <<mainVars, sortVars>>

NextFill == FillRecord

SpecFill == InitFill /\ [][NextFill]_vars

----
\* containerLs on its own: the daemon holds up to MaxSort containers with
\* distinct names, in any order.

SortLabels == {<<>>, GroupKey \o <<"=", "a">>, ComposeKey \o <<"=", "a">>,
               ComposeKey \o <<"=", "b">>, KubernetesKey \o <<"=", "a">>,
               MinikubeKey \o <<"=", "a">>, TalosKey \o <<"=", "a">>}

SortNames == {<<"a">>, <<"b">>, <<"a", "b">>, <<"b", "a">>}

SortWorlds ==
    {[i \in 1..n |-> Container(i, nm[i], <<"i">>, lb[i], "running", StatusUp)] :
        <<n, nm, lb>> \in
            {t \in UNION {{n} \X [1..n -> SortNames] \X [1..n -> SortLabels] :
                              n \in 0..MaxSort} :
                \A i, j \in 1..t[1] : i # j => t[2][i] # t[2][j]}}

InitSort ==
    /\ MainIdle
    /\ FillIdle
    /\ world \in SortWorlds
    /\ listing = <<>>
    /\ lsPc = "decoded"

\* containerLs: decode, fill and sort
ListContainers ==
    /\ lsPc = "decoded"
    /\ listing' = ContainerLs(world)
    /\ lsPc' = "sorted"
    /\ UNCHANGED <<mainVars, fillVars>>

\* the sort.Slice call of containerLs, applied to its own result
SortAgain ==
    /\ lsPc = "sorted"
    /\ listing' = SortSlice(listing)
    /\ lsPc' = "resorted"
    /\ UNCHANGED <<mainVars, fillVars>>

NextSort == ListContainers \/ SortAgain

SpecSort == InitSort /\ [][NextSort]_vars

----
\* Properties of command dispatch.

Range(s) == {s[i] : i \in 1..Len(s)}

IsLs(call) == call = ContainerLsCall
IsQuery(call) == call \in {ContainerLsCall, NetworkLsCall, VolumeLsCall}
IsPrune(call) == call \in {BuildxPruneCall, SystemPruneCall}
IsMutating(call) == ~IsQuery(call) /\ ~IsPrune(call)

\* the containers of a snapshot that pass the filter and are eligible
Eligible(command, filter, snapshot) ==
    {c \in Range(snapshot) :
        /\ filter = <<>> \/ filter = c.project.name
        /\ \/ command \in {"start", "rm"} /\ ~running(c)
           \/ command \in {"stop", "kill"} /\ running(c)
           \/ command = "restart"}

\* a step of containerCmd in which the listing succeeded, for a recognized
\* command
SelectStep ==
    /\ pc = "main"
    /\ Len(args) > 0
    /\ args[argi] \in Commands
    /\ exit' # "QueryFailure"

\* C1: for every snapshot, recognized command and filter, the identifiers
\* containerCmd selects, and then hands to docker, are exactly those of the
\* containers that pass the filter and satisfy the command's eligibility
\* (not running for start and rm, running for stop and kill, any for restart).
C1_TargetsAreEligible ==
    [][/\ SelectStep =>
            Range(ids') = {c.ID : c \in Eligible(args[argi], projectF, containers')}
       /\ pc = "run" =>
            /\ Len(calls') = Len(calls) + 1
            /\ Range(calls'[Len(calls')].ids) =
                  {c.ID : c \in Eligible(args[argi], projectF, containers)}
            /\ args[argi] = "start" =>
                  \A c \in Range(containers) :
                      running(c) => c.ID \notin Range(calls'[Len(calls')].ids)
            /\ args[argi] = "stop" =>
                  \A c \in Range(containers) :
                      ~running(c) => c.ID \notin Range(calls'[Len(calls')].ids)
      ]_vars

\* a filtered stop has reached docker with one of two containers as target,
\* the other one being a running container of another project
C1_Witness ==
    /\ Len(calls) > 0
    /\ calls[Len(calls)].cmd = <<"stop">>
    /\ Len(calls[Len(calls)].ids) = 1
    /\ projectF = <<"a">>
    /\ Len(containers) = 2
    /\ \A c \in Range(containers) : running(c)

\* C2: a command outside start, stop, restart, kill, rm ends the dispatch in
\* the fatal UnsupportedCommand outcome and docker is never invoked, whatever
\* the snapshot and the filter.
C2_UnsupportedCommandNoCalls ==
    (Len(args) > 0 /\ args[1] \notin Commands) =>
        /\ calls = <<>>
        /\ pc = "done" => exit = "UnsupportedCommand"

\* C3: a dispatch whose eligible set is empty makes no mutating call and goes
\* on without failure; otherwise it makes exactly one mutating call, on the
\* whole eligible set, and only rm carries --force --volumes.
C3_OneBatchedCall ==
    [][/\ SelectStep =>
            IF Eligible(args[argi], projectF, containers') = {}
            THEN /\ calls' = Append(calls, ContainerLsCall)
                 /\ pc' \in {"main", "prune"}
                 /\ exit' = "none"
            ELSE pc' = "run"
       /\ pc = "run" =>
            /\ calls' = Append(calls, calls'[Len(calls')])
            /\ pc' # "run"
            /\ LET call == calls'[Len(calls')]
               IN  /\ Len(call.ids) =
                        Cardinality(Eligible(args[argi], projectF, containers))
                   /\ Range(call.ids) =
                        {c.ID : c \in Eligible(args[argi], projectF, containers)}
                   /\ call.cmd = IF args[argi] = "rm"
                                 THEN <<"rm", "--force", "--volumes">>
                                 ELSE <<args[argi]>>
       /\ \A i \in 1..Len(calls') :
            (i > Len(calls) /\ IsMutating(calls'[i])) => pc = "run"
      ]_vars

\* rm has reached docker once, with the options and with both containers
C3_Witness ==
    /\ Len(calls) = 2
    /\ calls[2].cmd = <<"rm", "--force", "--volumes">>
    /\ Len(calls[2].ids) = 2
    /\ args = <<"rm">>

----
\* Properties of main.

NumLs(n) == Cardinality({i \in 1..n : IsLs(calls[i])})

MutatingCalls == SelectSeq(calls, IsMutating)
PruneCalls == SelectSeq(calls, IsPrune)

C8_PruneBestEffort ==
    /\ PruneCalls \in {<<>>, <<BuildxPruneCall>>,
                       <<BuildxPruneCall, SystemPruneCall>>}
    /\ pc = "prune2" => PruneCalls = <<BuildxPruneCall>>
    /\ pc = "return" => PruneCalls = <<BuildxPruneCall, SystemPruneCall>>
    /\ (pc = "done" /\ PruneCalls # <<>>) =>
          /\ PruneCalls = <<BuildxPruneCall, SystemPruneCall>>
          /\ exit = "ok"
    /\ logged <= Len(PruneCalls)
    /\ exit # "PruneFailure"

\* both prune commands have failed and the process has ended normally
C8_Witness ==
    /\ pc = "done"
    /\ exit = "ok"
    /\ logged = 2
    /\ PruneCalls = <<BuildxPruneCall, SystemPruneCall>>

\* C9: with -prune, pruneCmd is the last step on both paths: it runs once,
\* after the rendering or after the last dispatch, and not at all when the
\* invocation was ended by log.Fatal.
C9_PruneLast ==
    /\ \A i, j \in 1..Len(calls) :
          (IsPrune(calls[i]) /\ i < j) => IsPrune(calls[j])
    /\ exit \notin {"none", "ok"} => PruneCalls = <<>>
    /\ ~pruneF => PruneCalls = <<>>
    /\ PruneCalls # <<>> =>
          /\ pc \in {"prune2", "return", "done"}
          /\ Len(args) = 0 =>
                /\ out # <<>>
                /\ \A s \in Slots : gstate[s] = "ok"
          /\ Len(args) > 0 =>
                /\ argi = Len(args)
                /\ NumLs(Len(calls)) = Len(args)
    /\ (exit = "ok" /\ pruneF) =>
          PruneCalls = <<BuildxPruneCall, SystemPruneCall>>

\* -prune with kill: pruneCmd has run after the mutating call
C9_Witness ==
    /\ pruneF
    /\ exit = "ok"
    /\ Len(args) = 1
    /\ Len(calls) = 4
    /\ IsMutating(calls[2])
    /\ IsPrune(calls[3]) /\ IsPrune(calls[4])

----
\* Properties of container.fill.

\* a segment with exactly one "=", its key and its value
EqPositions(seg) == {i \in 1..Len(seg) : seg[i] = "="}
WellFormed(seg) == Cardinality(EqPositions(seg)) = 1
EqAt(seg) == CHOOSE i \in EqPositions(seg) : TRUE
KeyOf(seg) == SubSeq(seg, 1, EqAt(seg) - 1)
ValueOf(seg) == SubSeq(seg, EqAt(seg) + 1, Len(seg))

HasRecognizedKey(seg) == WellFormed(seg) /\ KeyOf(seg) \in Keys
NamesProject(seg) == HasRecognizedKey(seg) /\ ValueOf(seg) # <<>>

TypeOfKey(k) ==
    CASE k = GroupKey -> Group
      [] k = ComposeKey -> Compose
      [] k = KubernetesKey -> Kubernetes
      [] k = MinikubeKey -> Minikube
      [] k = TalosKey -> Talos

\* the comma-separated segments of a label string, by position
CommaPositions(labels) == {i \in 1..Len(labels) : labels[i] = ","}
SegmentStarts(labels) == {1} \cup {i + 1 : i \in CommaPositions(labels)}
SegmentAt(labels, start) ==
    LET stops == {i \in CommaPositions(labels) : i >= start}
        stop == IF stops = {} THEN Len(labels) + 1
                ELSE CHOOSE i \in stops : \A j \in stops : i <= j
    IN  SubSeq(labels, start, stop - 1)

\* C5: after fill the project name is empty only for a Single container, and
\* a record without a recognized key that carries a value is Single.
C5_EmptyNameOnlySingle ==
    recPc = "filled" =>
        /\ rec.project.name = <<>> => rec.project.typ = Single
        /\ (\A st \in SegmentStarts(rec.Labels) :
                ~NamesProject(SegmentAt(rec.Labels, st)))
              => rec.project.typ = Single

\* C6: fill takes the segments from left to right, skips those without
\* exactly one "=", and the project is the type and value of the first
\* segment with a recognized key and a non-empty value; later segments do not
\* count, and without such a segment the name stays empty.
C6_FirstNamingSegmentWins ==
    recPc = "filled" =>
        LET naming == {st \in SegmentStarts(rec.Labels) :
                          NamesProject(SegmentAt(rec.Labels, st))}
        IN  IF naming = {}
            THEN rec.project.name = <<>>
            ELSE LET first == CHOOSE st \in naming : \A o \in naming : st <= o
                     seg == SegmentAt(rec.Labels, first)
                 IN  rec.project = [typ |-> TypeOfKey(KeyOf(seg)),
                                    name |-> ValueOf(seg)]

\* a recognized key without a value, then two naming segments with different
\* keys: the first of the two has won
C6_Witness ==
    /\ recPc = "filled"
    /\ LET starts == SegmentStarts(rec.Labels)
           naming == {st \in starts : NamesProject(SegmentAt(rec.Labels, st))}
       IN  /\ Cardinality(naming) = 2
           /\ \E st \in starts : \E n1, n2 \in naming :
                 /\ st < n1 /\ n1 < n2
                 /\ HasRecognizedKey(SegmentAt(rec.Labels, st))
                 /\ KeyOf(SegmentAt(rec.Labels, n1)) #
                       KeyOf(SegmentAt(rec.Labels, n2))
                 /\ rec.project.typ = TypeOfKey(KeyOf(SegmentAt(rec.Labels, n1)))

----
\* Properties of containerLs.

\* a's sort key is not above b's
KeyLeq(a, b) ==
    \/ a.project.typ < b.project.typ
    \/ /\ a.project.typ = b.project.typ
       /\ StrLess(a.project.name, b.project.name)
    \/ /\ a.project = b.project
       /\ a.Names = b.Names \/ StrLess(a.Names, b.Names)

\* C7: containerLs returns a permutation of the classified records in
\* ascending order of (project type, project name, name); the containers of
\* one project are contiguous; sorting the result again changes nothing.
C7_SortedPermutation ==
    lsPc \in {"sorted", "resorted"} =>
        /\ Len(listing) = Len(world)
        /\ Range(listing) = {Fill(c) : c \in Range(world)}
        /\ \A i, j \in 1..Len(listing) :
              i < j => KeyLeq(listing[i], listing[j])
        /\ \A i, j, k \in 1..Len(listing) :
              (i < k /\ k < j /\ listing[i].project = listing[j].project)
                  => listing[k].project = listing[i].project
        /\ lsPc = "resorted" => listing = ContainerLs(world)

\* three containers, two of one project, that the daemon listed out of order
C7_Witness ==
    /\ lsPc = "resorted"
    /\ Len(listing) = 3
    /\ listing[1].ID = 3 /\ listing[2].ID = 1 /\ listing[3].ID = 2
    /\ listing[2].project = listing[3].project
    /\ listing[1].project.typ # Single
    /\ listing[1].project.typ = listing[2].project.typ

----
\* Properties of defaultCmd's queries.

Slot(s) ==
    CASE s = "containers" -> containers
      [] s = "networks" -> networks
      [] s = "volumes" -> volumes

\* C10: the three queries run concurrently, each goroutine assigns its own
\* slot once; nothing is printed before all three have returned, and nothing
\* at all when one of them failed.
C10_JoinBeforeRender ==
    Len(args) = 0 =>
        /\ \A s \in Slots :
              /\ writes[s] = IF gstate[s] \in {"ok", "err"} THEN 1 ELSE 0
              /\ gstate[s] # "ok" => Slot(s) = <<>>
        /\ out # <<>> => \A s \in Slots : gstate[s] = "ok"
        /\ pc \in {"prune", "prune2", "return"} =>
              \A s \in Slots : gstate[s] = "ok"
        /\ (\E s \in Slots : gstate[s] = "err") =>
              /\ out = <<>>
              /\ pc \in {"wait", "done"}
              /\ pc = "done" => exit = "QueryFailure"

\* two queries have succeeded, the third has failed, and the process has
\* ended without output
C10_Witness ==
    /\ pc = "done"
    /\ exit = "QueryFailure"
    /\ out = <<>>
    /\ gstate["containers"] = "ok" /\ gstate["networks"] = "ok"
    /\ gstate["volumes"] = "err"
    /\ Len(containers) > 0 /\ Len(networks) > 0

----
\* defaultCmd's rendering on its own: the three queries have succeeded and
\* g.Wait is about to return; the daemon holds up to MaxRender containers.

RenderLabels == {<<>>, GroupKey \o <<"=", "a">>, ComposeKey \o <<"=", "a">>,
                 ComposeKey \o <<"=", "b">>, ComposeKey \o <<"=">>,
                 KubernetesKey \o <<"=", "a">>, TalosKey \o <<"=", "a">>}

\* container i is named "b" repeated (MaxRender + 1 - i) times
RenderName(i) == [k \in 1..(MaxRender + 1 - i) |-> "b"]

RenderWorlds ==
    {[i \in 1..n |-> Container(i, RenderName(i), <<"i">>, lb[i], "running",
                               StatusUp)] :
        <<n, lb>> \in UNION {{n} \X [1..n -> RenderLabels] : n \in 0..MaxRender}}

\* the state of defaultCmd when the three goroutines have returned nil
Joined ==
    /\ args = <<>>
    /\ projectF = <<>>
    /\ pruneF = FALSE
    /\ pc = "wait"
    /\ argi = 1
    /\ ids = <<>>
    /\ gstate = [s \in Slots |-> "ok"]
    /\ writes = [s \in Slots |-> 1]
    /\ calls = <<ContainerLsCall, NetworkLsCall, VolumeLsCall>>
    /\ out = <<>>
    /\ exit = "none"
    /\ logged = 0

InitRender ==
    /\ Joined
    /\ FillIdle
    /\ SortIdle
    /\ world \in RenderWorlds
    /\ containers = ContainerLs(world)
    /\ networks = <<>>
    /\ volumes = <<>>

NextRender == DefaultCmdWait

SpecRender == InitRender /\ [][NextRender]_vars

----
\* containerCmd on records of every state: one positional argument, no filter,
\* up to MaxRunning containers whose State and Status are drawn independently.

StatusPaused == <<"U", "p", " ", "x", " ", "(Paused)">>

States == {"", "running", "paused", "exited"}

Statuses == {StatusUp, StatusPaused, StatusExited, <<"U", "p">>}

\* container i is named "a" repeated i times
RunningName(i) == [k \in 1..i |-> "a"]

RunningWorlds ==
    {[i \in 1..n |-> Container(i, RunningName(i), <<"i">>, <<>>, f[i][1],
                               f[i][2])] :
        <<n, f>> \in UNION {{n} \X [1..n -> States \X Statuses] :
                               n \in 1..MaxRunning}}

InitRunning ==
    /\ args \in {<<command>> : command \in Commands}
    /\ projectF = <<>>
    /\ pruneF = FALSE
    /\ world \in RunningWorlds
    /\ pc = "main"
    /\ argi = 1
    /\ containers = <<>>
    /\ networks = <<>>
    /\ volumes = <<>>
    /\ ids = <<>>
    /\ gstate = [s \in Slots |-> "idle"]
    /\ writes = [s \in Slots |-> 0]
    /\ calls = <<>>
    /\ out = <<>>
    /\ exit = "none"
    /\ logged = 0
    /\ FillIdle
    /\ SortIdle

NextRunning ==
    \/ ContainerCmdLs
    \/ ContainerCmdRun
    \/ MainReturn

SpecRunning == InitRunning /\ [][NextRunning]_vars

----
\* defaultCmd's volume section on its own: the three queries have succeeded
\* and the daemon holds up to MaxVolumes volumes, in any order.

HexLower == [k \in 1..AnonymousNameLen |-> "a"]
HexUpper == [k \in 1..AnonymousNameLen |-> "A"]
HexMixed == [k \in 1..AnonymousNameLen |-> IF k = 1 THEN "0" ELSE "f"]
HexShort == [k \in 1..(AnonymousNameLen - 1) |-> "a"]
HexLong == [k \in 1..(AnonymousNameLen + 1) |-> "a"]
NotHex == [k \in 1..AnonymousNameLen |-> IF k = AnonymousNameLen THEN "g" ELSE "a"]

VolumeNames == {HexLower, HexUpper, HexMixed, HexShort, HexLong, NotHex, <<"b">>}

VolumeRecords == {Net(driver, name) : driver \in {"local", "x"}, name \in VolumeNames}

VolumeWorlds ==
    UNION {[1..n -> VolumeRecords] : n \in 0..MaxVolumes}

InitVolumes ==
    /\ Joined
    /\ FillIdle
    /\ SortIdle
    /\ world = <<>>
    /\ containers = <<>>
    /\ networks = <<>>
    /\ \E vs \in VolumeWorlds : volumes = DriverNameSort(vs)

NextVolumes == DefaultCmdWait

SpecVolumes == InitVolumes /\ [][NextVolumes]_vars

----
\* Properties of the rendering.

IsHeader(line) == line.kind = "header"
IsContainerLine(line) == line.kind = "container"

\* the projects of the listed containers that are not Single
Projects == {c.project : c \in {d \in Range(containers) : d.project.typ # Single}}

\* position in out of the line of the container with this ID (0: none)
LineOf(id) ==
    LET at == {i \in 1..Len(out) :
                  IsContainerLine(out[i]) /\ out[i].param2 = id}
    IN  IF at = {} THEN 0 ELSE CHOOSE i \in at : TRUE

\* position in containers of the first container of a project
FirstOf(p) ==
    CHOOSE i \in 1..Len(containers) :
        /\ containers[i].project = p
        /\ \A j \in 1..(i - 1) : containers[j].project # p

\* C11: the rendering has one header per distinct non-Single (type, name)
\* project, before the first container of that project and after every
\* container listed earlier; two adjacent projects of different type and the
\* same name have a header each.
C11_HeaderPerProject ==
    pc \in {"prune", "done"} =>
        /\ \A p \in Projects :
              /\ Cardinality({i \in 1..Len(out) :
                     IsHeader(out[i]) /\ out[i].typ = p.typ
                     /\ out[i].name = p.name}) = 1
              /\ \E h \in 1..Len(out) :
                    /\ IsHeader(out[h])
                    /\ out[h].typ = p.typ /\ out[h].name = p.name
                    /\ h < LineOf(containers[FirstOf(p)].ID)
                    /\ \A j \in 1..(FirstOf(p) - 1) :
                          LineOf(containers[j].ID) < h
        /\ Cardinality({i \in 1..Len(out) : IsHeader(out[i])}) =
              Cardinality(Projects)

\* C14: once the three queries have succeeded the rendering never ends in the
\* fatal "Unexpected project type": every Single container has an empty
\* project name, the Single containers come before all others, and so no
\* Single container differs from the last project name.
C14_NoUnexpectedProjectType ==
    /\ exit # "UnexpectedProjectType"
    /\ \A i \in 1..Len(containers) :
          containers[i].project.typ = Single =>
              /\ containers[i].project.name = <<>>
              /\ \A j \in 1..(i - 1) : containers[j].project.typ = Single
    /\ pc \in {"prune", "done"} =>
          /\ exit = "none"
          /\ \A c \in Range(containers) : LineOf(c.ID) > 0
          /\ \A i \in 1..Len(out) :
                (IsHeader(out[i]) \/ out[i].kind = "bulk") =>
                    \A c \in Range(containers) :
                        c.project.typ = Single => LineOf(c.ID) < i

\* rendered: a Single container, then a Compose container without a project
\* name, then a named project with its header
C14_Witness ==
    /\ pc = "prune"
    /\ Len(containers) = 3
    /\ containers[1].project.typ = Single
    /\ containers[2].project = [typ |-> Compose, name |-> <<>>]
    /\ containers[3].project.name # <<>>
    /\ Cardinality({i \in 1..Len(out) : IsHeader(out[i])}) = 1

----
\* Properties of container.running.

\* the selection loop of containerCmd has run
Selected == calls # <<>> /\ exit # "QueryFailure"

BeginsWithUp(status) ==
    /\ Len(status) >= 3
    /\ status[1] = "U" /\ status[2] = "p" /\ status[3] = " "

\* the ids a command acts on when run(c) tells which containers are running
Acted(c, isRunning) ==
    \/ args[1] = "restart"
    \/ args[1] \in {"start", "rm"} /\ ~isRunning
    \/ args[1] \in {"stop", "kill"} /\ isRunning

\* C12 as stated: a container is running iff State is "running", or State is
\* empty and Status begins with "Up "; start and rm act on exactly the
\* containers that are not running in this sense, stop and kill on exactly
\* those that are (a paused container with Status "Up ..." is not running).
C12_StatusOnlyWithoutState ==
    Selected =>
        \A c \in Range(containers) :
            LET r == \/ c.State = "running"
                     \/ c.State = "" /\ BeginsWithUp(c.Status)
            IN  /\ running(c) <=> r
                /\ c.ID \in Range(ids) <=> Acted(c, r)

\* C12 amended: a container is running iff State is "running" or Status
\* begins with "Up ", whatever State holds; start and rm act on exactly the
\* containers that are not running in this sense, stop and kill on exactly
\* those that are.
C12_RunningEitherField ==
    Selected =>
        \A c \in Range(containers) :
            LET r == c.State = "running" \/ BeginsWithUp(c.Status)
            IN  /\ running(c) <=> r
                /\ c.ID \in Range(ids) <=> Acted(c, r)

\* stop has been run on a paused container whose Status begins with "Up "
C12_Witness ==
    /\ pc = "done"
    /\ exit = "ok"
    /\ args = <<"stop">>
    /\ Len(calls) = 2
    /\ \E c \in Range(containers) :
          /\ c.State = "paused"
          /\ c.Status = StatusPaused
          /\ c.ID \in Range(calls[2].ids)

----
\* Properties of volume.anonymous.

LowercaseHex == {"0", "1", "2", "3", "4", "5", "6", "7", "8", "9",
                 "a", "b", "c", "d", "e", "f"}

\* local driver and a name of 64 lowercase hexadecimal digits
LocalLowercaseHex64(v) ==
    /\ v.Driver = <<"local">>
    /\ Len(v.Name) = 64
    /\ \A i \in 1..Len(v.Name) : v.Name[i] \in LowercaseHex

LinesOfKind(kind) == {i \in 1..Len(out) : out[i].kind = kind}

\* C13: anonymous() is true iff the driver is "local" and the name is 64
\* lowercase hexadecimal digits (an uppercase digit, another length, another
\* character or another driver gives false); the volume section enumerates
\* exactly the other volumes, and enumerated plus anonymous equals the total.
C13_AnonymousLowercaseHex ==
    (pc \in {"prune", "done"} /\ Len(volumes) # 0) =>
          LET hidden == Count(volumes, LocalLowercaseHex64)
          IN  /\ \A v \in Range(volumes) :
                    anonymous(v) <=> LocalLowercaseHex64(v)
              /\ \E i \in LinesOfKind("volumes") : out[i].count = Len(volumes)
              /\ Cardinality(LinesOfKind("volume")) + hidden = Len(volumes)
              /\ \A v \in Range(volumes) :
                    LocalLowercaseHex64(v) <=>
                        ~ \E i \in LinesOfKind("volume") :
                              out[i].name = v.Name /\ out[i].driver = v.Driver
              /\ hidden # 0 =>
                    \E i \in LinesOfKind("anonymous") : out[i].count = hidden
              /\ hidden = 0 => LinesOfKind("anonymous") = {}

====
